---- MODULE Spec2Model ----
(***************************************************************************)
(* A model of the back-office ledger: the Client store with its account    *)
(* adjustment transaction (ClientsService), the account summary and the    *)
(* staff work payout preview (AccountsService).                            *)
(*                                                                         *)
(* The store is the PostgreSQL database behind Prisma.  Every Prisma call  *)
(* (findUnique, create, update, delete, aggregate, groupBy, findMany) is   *)
(* one atomic step on the store; a handler that awaits several Prisma      *)
(* calls is several steps, and other requests may run between them.        *)
(***************************************************************************)
EXTENDS Integers, Sequences, FiniteSets, TLC

VARIABLES
    clients,    \* Client table: id -> row (exists = FALSE: no such row)
    nextId,     \* next value of the SERIAL id sequence of the Client table
    calls,      \* requests in flight: slot -> the handler's position and arguments
    started,    \* number of write requests received so far
    resp,       \* what the step just taken returned to its caller
    incomes,    \* Income table: id -> row
    expenses,   \* Expense table: id -> row
    summary,    \* the getSummary call: its position and what it has read so far
    staff,      \* Staff table: id -> row
    workItems,  \* WorkItem table: id -> row
    staffWorks, \* StaffWork table: id -> row
    preview,    \* the payout previews just returned, per staffId argument
    classified, \* the last call of getPriorityAndStages: its arguments and its result
    contracts,  \* Client table, contract columns: id -> type, start date, duration
    now,        \* the clock, in hours
    runs,       \* number of runs of the daily reminder scan so far
    adminReminders, \* AdminReminder table: the rows in order of creation
    mails,      \* the notifications handed to the mail transport, in order
    scan,       \* the last run of the reminder scan
    counts,     \* the counts getSummary returned last
    cronRuns,   \* the runs of the scheduled scan in progress: slot -> position
    last,       \* the answer of the last request that names another entity's id
    payments    \* Payment table: the rows in order of creation

clientVars == <<clients, nextId, calls, started, resp>>
ledgerVars == <<incomes, expenses, summary>>
payoutVars == <<staff, workItems, staffWorks, preview>>

classifyVars == <<classified>>
reminderVars == <<contracts, now, runs, adminReminders, mails, scan, counts, cronRuns>>
refVars      == <<last, payments>>

notClientVars == <<ledgerVars, payoutVars, classifyVars, reminderVars, refVars>>
notLedgerVars == <<clientVars, payoutVars, classifyVars, reminderVars, refVars>>
notPayoutVars == <<clientVars, ledgerVars, classifyVars, reminderVars, refVars>>
notReminderVars == <<clientVars, ledgerVars, payoutVars, classifyVars, refVars>>

vars == <<clientVars, ledgerVars, payoutVars, classifyVars, reminderVars, refVars>>

-----------------------------------------------------------------------------
(* Bounds of the model *)

MaxRequests == 2    \* write requests received in one behaviour
MaxRows     == 2    \* rows ever created in the Income table, and in the Expense table
MaxWorks    == 2    \* rows ever created in the StaffWork table

\* The small sets the requests draw their arguments from.
ClientIds == {1, 2}         \* ids the Client table may hold or a request may name
Amounts   == {0, 1}         \* amounts of a create or update (@Min(0))
DeltaVals == {-1, 0, 1}     \* deltas of an adjustment (any sign)

\* Each write request runs in its own slot, numbered in order of arrival.
Slots == 1..MaxRequests

-----------------------------------------------------------------------------
(* The Client table *)

\* A row of the Client table; only the three balances are kept.
ClientRow(l, a, d) ==
    [exists |-> TRUE, lockedAmountNrs |-> l, advanceAmountNrs |-> a, dueAmountNrs |-> d]

NoClient ==
    [exists |-> FALSE, lockedAmountNrs |-> 0, advanceAmountNrs |-> 0, dueAmountNrs |-> 0]

\* A JavaScript number that may be NaN (undefined - x, x - undefined).
JsNum(v) == [nan |-> FALSE, val |-> v]
JsNaN    == [nan |-> TRUE, val |-> 0]

\* An optional integer field of a DTO: has = FALSE is "undefined".
Opt(has, v) == [has |-> has, val |-> IF has THEN v ELSE 0]
OptAmounts  == {Opt(h, v) : h \in BOOLEAN, v \in Amounts}
OptDeltas   == {Opt(h, v) : h \in BOOLEAN, v \in DeltaVals}

\* a - b on two optional fields, as JavaScript computes it.
JsSub(a, b) == IF a.has /\ b.has THEN JsNum(a.val - b.val) ELSE JsNaN

\* AdjustAccountDto: both deltas optional integers of either sign.
AdjustAccountDto == [lockedDelta : OptDeltas, advanceDelta : OptDeltas]

\* CreateClientDto: both amounts optional integers >= 0.
CreateClientDto == [lockedAmountNrs : OptAmounts, advanceAmountNrs : OptAmounts]

\* UpdateClientDto: a partial CreateClientDto.
UpdateClientDto == [lockedAmountNrs : OptAmounts, advanceAmountNrs : OptAmounts]

-----------------------------------------------------------------------------
(* Requests and responses *)

Undefined == Opt(FALSE, 0)

Idle == [op |-> "idle", id |-> 0, l |-> Undefined, a |-> Undefined]

\* A handler that passed its findOne and awaits its write.
Call(op, id, l, a) == [op |-> op, id |-> id, l |-> l, a |-> a]

NoResp ==
    [op |-> "none", out |-> "none", id |-> 0, l |-> Undefined, a |-> Undefined,
     before |-> [c \in ClientIds |-> NoClient], ret |-> NoClient]

\* The response of a handler: its outcome (out), what it returned (ret) and the
\* table as it was when its last step began (before).
Resp(op, out, id, l, a, ret) ==
    [op |-> op, out |-> out, id |-> id, l |-> l, a |-> a, before |-> clients, ret |-> ret]

-----------------------------------------------------------------------------
(* ClientsService.findOne *)

FindOneFound(id) == id \in ClientIds /\ clients[id].exists

\* GET /clients/:id
FindOne(id) ==
    /\ resp' = IF FindOneFound(id)
               THEN Resp("findOne", "ok", id, Undefined, Undefined, clients[id])
               ELSE Resp("findOne", "NotFoundException", id, Undefined, Undefined, NoClient)
    /\ UNCHANGED <<clients, nextId, calls, started>>
    /\ UNCHANGED notClientVars

\* The first await of a write handler, this.findOne(id): a NotFoundException
\* ends the request, else the handler goes on to its write.
AwaitFindOne(op, id, l, a) ==
    /\ started' = started + 1
    /\ IF FindOneFound(id)
       THEN /\ calls' = [calls EXCEPT ![started + 1] = Call(op, id, l, a)]
            /\ resp' = NoResp
       ELSE /\ calls' = calls
            /\ resp' = Resp(op, "NotFoundException", id, l, a, NoClient)
    /\ UNCHANGED <<clients, nextId>>
    /\ UNCHANGED notClientVars

-----------------------------------------------------------------------------
(* ClientsService.adjustAccount *)

\* A due increment that adds the deltas instead of subtracting them.
DueIncrementAdded(dto) ==
    IF dto.lockedDelta.has /\ dto.advanceDelta.has
    THEN JsNum(dto.lockedDelta.val + dto.advanceDelta.val)
    ELSE JsNaN

\* updates.dueAmountNrs.increment
DueIncrement(dto) == JsSub(dto.lockedDelta, dto.advanceDelta)

\* The data of the update: an increment per balance; a key that is not set
\* increments by nothing.
AdjustUpdates(dto) ==
    [lockedAmountNrs  |-> IF dto.lockedDelta.has THEN JsNum(dto.lockedDelta.val) ELSE JsNum(0),
     advanceAmountNrs |-> IF dto.advanceDelta.has THEN JsNum(dto.advanceDelta.val) ELSE JsNum(0),
     dueAmountNrs     |-> DueIncrement(dto)]

\* Prisma rejects an update whose Int increment is NaN before it touches the table.
UpdatesValid(updates) ==
    /\ ~updates.lockedAmountNrs.nan
    /\ ~updates.advanceAmountNrs.nan
    /\ ~updates.dueAmountNrs.nan

\* An update that sets the columns to values computed away from the row,
\* instead of adding to what the row holds when the statement runs.
ApplyIncrementsOverwrite(row, updates) ==
    ClientRow(updates.lockedAmountNrs.val, updates.advanceAmountNrs.val, updates.dueAmountNrs.val)

\* An update that writes locked and advance and leaves due to a later statement.
ApplyIncrementsWithoutDue(row, updates) ==
    ClientRow(row.lockedAmountNrs + updates.lockedAmountNrs.val,
              row.advanceAmountNrs + updates.advanceAmountNrs.val,
              row.dueAmountNrs)

\* prisma.client.update with increments: one UPDATE statement on the row.
ApplyIncrements(row, updates) ==
    ClientRow(row.lockedAmountNrs + updates.lockedAmountNrs.val,
              row.advanceAmountNrs + updates.advanceAmountNrs.val,
              row.dueAmountNrs + updates.dueAmountNrs.val)

\* POST /clients/:id/account/adjust, first await: this.findOne(id).
AdjustFindOne(id, dto) ==
    /\ started < MaxRequests
    /\ AwaitFindOne("adjustAccount", id, dto.lockedDelta, dto.advanceDelta)

\* this.prisma.$transaction(...): builds the updates and runs the one update.
AdjustTransaction(s) ==
    /\ calls[s].op = "adjustAccount"
    /\ LET id      == calls[s].id
           dto     == [lockedDelta |-> calls[s].l, advanceDelta |-> calls[s].a]
           updates == AdjustUpdates(dto)
           row     == ApplyIncrements(clients[id], updates)
       IN  IF ~UpdatesValid(updates)
           THEN /\ resp' = Resp("adjustAccount", "PrismaValidationError", id, dto.lockedDelta,
                                dto.advanceDelta, NoClient)
                /\ clients' = clients
           ELSE IF ~clients[id].exists
           THEN /\ resp' = Resp("adjustAccount", "PrismaRecordNotFound", id, dto.lockedDelta,
                                dto.advanceDelta, NoClient)
                /\ clients' = clients
           ELSE /\ resp' = Resp("adjustAccount", "ok", id, dto.lockedDelta, dto.advanceDelta, row)
                /\ clients' = [clients EXCEPT ![id] = row]
    /\ calls' = [calls EXCEPT ![s] = Idle]
    /\ UNCHANGED <<nextId, started>>
    /\ UNCHANGED notClientVars

-----------------------------------------------------------------------------
(* ClientsService.create, update, remove *)

\* clientData.dueAmountNrs
CreateDue(dto) == JsSub(dto.lockedAmountNrs, dto.advanceAmountNrs)

\* POST /clients: one prisma.client.create; a NaN dueAmountNrs is rejected.
Create(dto) ==
    /\ started < MaxRequests
    /\ started' = started + 1
    /\ nextId \in ClientIds
    /\ IF CreateDue(dto).nan
       THEN /\ resp' = Resp("create", "PrismaValidationError", 0, dto.lockedAmountNrs,
                            dto.advanceAmountNrs, NoClient)
            /\ UNCHANGED <<clients, nextId>>
       ELSE LET row == ClientRow(dto.lockedAmountNrs.val, dto.advanceAmountNrs.val,
                                 CreateDue(dto).val)
            IN  /\ resp' = Resp("create", "ok", nextId, dto.lockedAmountNrs,
                                dto.advanceAmountNrs, row)
                /\ clients' = [clients EXCEPT ![nextId] = row]
                /\ nextId' = nextId + 1
    /\ UNCHANGED calls
    /\ UNCHANGED notClientVars

\* updateData spread into prisma.client.update: the fields the DTO carries
\* replace the row's, every other column keeps its value.
ApplyUpdateData(row, dto) ==
    ClientRow(IF dto.lockedAmountNrs.has THEN dto.lockedAmountNrs.val ELSE row.lockedAmountNrs,
              IF dto.advanceAmountNrs.has THEN dto.advanceAmountNrs.val ELSE row.advanceAmountNrs,
              row.dueAmountNrs)

\* PATCH /clients/:id, first await: this.findOne(id).
UpdateFindOne(id, dto) ==
    /\ started < MaxRequests
    /\ AwaitFindOne("update", id, dto.lockedAmountNrs, dto.advanceAmountNrs)

\* PATCH /clients/:id, second await: prisma.client.update.
UpdateWrite(s) ==
    /\ calls[s].op = "update"
    /\ LET id  == calls[s].id
           dto == [lockedAmountNrs |-> calls[s].l, advanceAmountNrs |-> calls[s].a]
           row == ApplyUpdateData(clients[id], dto)
       IN  IF ~clients[id].exists
           THEN /\ resp' = Resp("update", "PrismaRecordNotFound", id, calls[s].l, calls[s].a, NoClient)
                /\ clients' = clients
           ELSE /\ resp' = Resp("update", "ok", id, calls[s].l, calls[s].a, row)
                /\ clients' = [clients EXCEPT ![id] = row]
    /\ calls' = [calls EXCEPT ![s] = Idle]
    /\ UNCHANGED <<nextId, started>>
    /\ UNCHANGED notClientVars

\* DELETE /clients/:id, first await: this.findOne(id).
RemoveFindOne(id) ==
    /\ started < MaxRequests
    /\ AwaitFindOne("remove", id, Undefined, Undefined)

\* DELETE /clients/:id, second await: prisma.client.delete.
RemoveDelete(s) ==
    /\ calls[s].op = "remove"
    /\ LET id == calls[s].id
       IN  IF ~clients[id].exists
           THEN /\ resp' = Resp("remove", "PrismaRecordNotFound", id, Undefined, Undefined, NoClient)
                /\ clients' = clients
           ELSE /\ resp' = Resp("remove", "ok", id, Undefined, Undefined, clients[id])
                /\ clients' = [clients EXCEPT ![id] = NoClient]
    /\ calls' = [calls EXCEPT ![s] = Idle]
    /\ UNCHANGED <<nextId, started>>
    /\ UNCHANGED notClientVars

-----------------------------------------------------------------------------
(* The Income and Expense tables and AccountsService.getSummary *)

\* Row ids of the Income table and of the Expense table (SERIAL: never reused).
RowIds == 1..MaxRows

IncomeAmounts  == {0, 500}          \* CreateIncomeDto.amountNrs (@Min(0))
ExpenseAmounts == {200, 400}
ExpenseSources == {"GENERAL", "STAFF_MONTHLY"}

IncomeRow(c, amt) == [state |-> "live", clientId |-> c, amountNrs |-> amt]
FreeIncome        == [state |-> "free", clientId |-> 0, amountNrs |-> 0]
DeletedIncome     == [state |-> "deleted", clientId |-> 0, amountNrs |-> 0]

\* staffId 0 is NULL.
ExpenseRow(src, amt) == [state |-> "live", source |-> src, amountNrs |-> amt, staffId |-> 0]
FreeExpense          == [state |-> "free", source |-> "", amountNrs |-> 0, staffId |-> 0]
DeletedExpense       == [state |-> "deleted", source |-> "", amountNrs |-> 0, staffId |-> 0]

Live(table) == {i \in RowIds : table[i].state = "live"}
HasFree(table) == \E i \in RowIds : table[i].state = "free"
\* nextval of the id sequence: the lowest id never handed out.
NextRowId(table) == CHOOSE i \in RowIds : table[i].state = "free" /\ \A j \in RowIds : j < i => table[j].state # "free"

RECURSIVE SumAmounts(_, _)
SumAmounts(table, ids) ==
    IF ids = {} THEN 0
    ELSE LET i == CHOOSE j \in ids : TRUE
         IN  table[i].amountNrs + SumAmounts(table, ids \ {i})

\* A value Prisma returns that may be null.
JsNull     == [null |-> TRUE, val |-> 0]
JsValue(v) == [null |-> FALSE, val |-> v]

\* aggregate({_sum: {amountNrs: true}}) over the rows ids: null over no rows.
AggregateSum(table, ids) ==
    IF ids = {} THEN JsNull ELSE JsValue(SumAmounts(table, ids))

\* x || 0
OrZero(x) == IF x.null \/ x.val = 0 THEN 0 ELSE x.val

\* A net with its operands exchanged.
NetNrsExchanged(totalIncomeNrs, totalExpenseNrs) == totalExpenseNrs - totalIncomeNrs

\* const netNrs = totalIncomeNrs - totalExpenseNrs
NetNrs(totalIncomeNrs, totalExpenseNrs) == totalIncomeNrs - totalExpenseNrs

\* A group sum that takes the amount of the client's first row only.
IncomeGroupFirstRow(c) ==
    LET ids == {i \in Live(incomes) : incomes[i].clientId = c}
    IN  IF ids = {} THEN JsNull
        ELSE JsValue(incomes[CHOOSE i \in ids : \A j \in ids : i <= j].amountNrs)

\* income.groupBy({by: ['clientId'], _sum}): one group per clientId that has a row.
IncomeGroupSum(c) == AggregateSum(incomes, {i \in Live(incomes) : incomes[i].clientId = c})

\* A grouping with a group for every stored client, with or without rows.
IncomeGroupByEveryClient ==
    {[clientId |-> c, sum |-> IncomeGroupSum(c)] : c \in {c \in ClientIds : clients[c].exists}}

IncomeGroupBy ==
    {[clientId |-> c, sum |-> IncomeGroupSum(c)] : c \in {incomes[i].clientId : i \in Live(incomes)}}

\* incomeByClientWithNames, without the name (looked up in the Client table only).
IncomeByClientWithNames(groups) ==
    {[clientId |-> g.clientId, total |-> OrZero(g.sum)] : g \in groups}

\* expense.groupBy({by: ['source'], _sum}): one group per source that has a row.
ExpenseGroupSum(src) == AggregateSum(expenses, {i \in Live(expenses) : expenses[i].source = src})

ExpenseGroupBy ==
    {[source |-> src, sum |-> ExpenseGroupSum(src)] : src \in {expenses[i].source : i \in Live(expenses)}}

ExpenseBySourceFormatted(groups) ==
    {[source |-> g.source, total |-> OrZero(g.sum)] : g \in groups}

\* The getSummary call: pc is the await it is at; the other fields are what it has
\* computed; quiet is FALSE once a write ran between its first read and now.
NoSummary ==
    [pc |-> "idle", quiet |-> TRUE,
     totalIncomeNrs |-> 0, totalExpenseNrs |-> 0, netNrs |-> 0,
     incomeByClient |-> {}, expenseBySource |-> {}]

InitLedgerEmpty ==
    /\ incomes = [i \in RowIds |-> FreeIncome]
    /\ expenses = [i \in RowIds |-> FreeExpense]
    /\ summary = NoSummary

\* The model lets one write run while a getSummary call is in flight.
MayWrite == summary.pc \in {"idle", "done"} \/ summary.quiet

\* What a write to the ledger does to the getSummary call in flight: it is not
\* quiet any more; a response already delivered is dropped.
Disturbed ==
    IF summary.pc \in {"idle", "done"} THEN NoSummary ELSE [summary EXCEPT !.quiet = FALSE]

\* IncomeService.create: the foreign key wants the client to exist.
IncomeCreate(c, amt) ==
    /\ MayWrite
    /\ HasFree(incomes)
    /\ clients[c].exists
    /\ incomes' = [incomes EXCEPT ![NextRowId(incomes)] = IncomeRow(c, amt)]
    /\ summary' = Disturbed
    /\ UNCHANGED <<expenses, notLedgerVars>>

\* IncomeService.update of amountNrs: findOne, then the update.
IncomeUpdate(i, amt) ==
    /\ MayWrite
    /\ incomes[i].state = "live"
    /\ incomes[i].amountNrs # amt
    /\ incomes' = [incomes EXCEPT ![i].amountNrs = amt]
    /\ summary' = Disturbed
    /\ UNCHANGED <<expenses, notLedgerVars>>

\* IncomeService.remove: findOne, then the delete.
IncomeRemove(i) ==
    /\ MayWrite
    /\ incomes[i].state = "live"
    /\ incomes' = [incomes EXCEPT ![i] = DeletedIncome]
    /\ summary' = Disturbed
    /\ UNCHANGED <<expenses, notLedgerVars>>

\* ExpensesService.create
ExpenseCreate(src, amt) ==
    /\ MayWrite
    /\ HasFree(expenses)
    /\ expenses' = [expenses EXCEPT ![NextRowId(expenses)] = ExpenseRow(src, amt)]
    /\ summary' = Disturbed
    /\ UNCHANGED <<incomes, notLedgerVars>>

\* ExpensesService.update of amountNrs: findOne, then the update.
ExpenseUpdate(i, amt) ==
    /\ MayWrite
    /\ expenses[i].state = "live"
    /\ expenses[i].amountNrs # amt
    /\ expenses' = [expenses EXCEPT ![i].amountNrs = amt]
    /\ summary' = Disturbed
    /\ UNCHANGED <<incomes, notLedgerVars>>

\* ExpensesService.remove: findOne, then the delete.
ExpenseRemove(i) ==
    /\ MayWrite
    /\ expenses[i].state = "live"
    /\ expenses' = [expenses EXCEPT ![i] = DeletedExpense]
    /\ summary' = Disturbed
    /\ UNCHANGED <<incomes, notLedgerVars>>

\* getSummary, first await: income.aggregate.
SummaryAggregateIncome ==
    /\ summary.pc \in {"idle", "done"}
    /\ summary' = [NoSummary EXCEPT !.pc = "expenseAggregate",
                                    !.totalIncomeNrs = OrZero(AggregateSum(incomes, Live(incomes)))]
    /\ UNCHANGED <<incomes, expenses, notLedgerVars>>

\* getSummary, second await: expense.aggregate; then the three totals.
SummaryAggregateExpense ==
    /\ summary.pc = "expenseAggregate"
    /\ LET totalExpenseNrs == OrZero(AggregateSum(expenses, Live(expenses)))
       IN  summary' = [summary EXCEPT !.pc = "incomeGroupBy",
                                      !.totalExpenseNrs = totalExpenseNrs,
                                      !.netNrs = NetNrs(summary.totalIncomeNrs, totalExpenseNrs)]
    /\ UNCHANGED <<incomes, expenses, notLedgerVars>>

\* getSummary, third await: income.groupBy, and the client of each group.
SummaryIncomeByClient ==
    /\ summary.pc = "incomeGroupBy"
    /\ summary' = [summary EXCEPT !.pc = "expenseGroupBy",
                                  !.incomeByClient = IncomeByClientWithNames(IncomeGroupBy)]
    /\ UNCHANGED <<incomes, expenses, notLedgerVars>>

\* getSummary, fourth await: expense.groupBy; the counts read neither table, and
\* the summary is returned.
SummaryExpenseBySource ==
    /\ summary.pc = "expenseGroupBy"
    /\ summary' = [summary EXCEPT !.pc = "done",
                                  !.expenseBySource = ExpenseBySourceFormatted(ExpenseGroupBy)]
    /\ UNCHANGED <<incomes, expenses, notLedgerVars>>

-----------------------------------------------------------------------------
(* Dates: an instant is the number of hours since 2024-01-01 00:00, server  *)
(* local time                                                               *)

IsLeapYear(y) == (y % 4 = 0 /\ y % 100 # 0) \/ y % 400 = 0

DaysInYear(y) == IF IsLeapYear(y) THEN 366 ELSE 365

\* monthIndex is 0-based, as in Date.
DaysInMonth(y, monthIndex) ==
    IF monthIndex = 1 THEN (IF IsLeapYear(y) THEN 29 ELSE 28)
    ELSE IF monthIndex \in {3, 5, 8, 10} THEN 30 ELSE 31

RECURSIVE DaysBeforeMonth(_, _)
DaysBeforeMonth(y, monthIndex) ==
    IF monthIndex = 0 THEN 0
    ELSE DaysInMonth(y, monthIndex - 1) + DaysBeforeMonth(y, monthIndex - 1)

RECURSIVE DaysBeforeYear(_)
DaysBeforeYear(y) == IF y <= 2024 THEN 0 ELSE DaysInYear(y - 1) + DaysBeforeYear(y - 1)

\* new Date(year, monthIndex, day): local midnight of that day; a monthIndex
\* outside 0..11 carries into the year, a day outside the month into the months.
JsDate(year, monthIndex, day) ==
    LET y == year + (monthIndex \div 12)
        m == monthIndex % 12
    IN  (DaysBeforeYear(y) + DaysBeforeMonth(y, m) + (day - 1)) * 24

\* The instant hour o'clock on the calendar day (year, month, day), month 1-based.
At(year, month, day, hour) == JsDate(year, month - 1, day) + hour

-----------------------------------------------------------------------------
(* Staff, WorkItem and StaffWork tables; StaffWorksService.create *)

StaffIds    == {1, 2, 3}
WorkItemIds == {1}
WorkIds     == 1..MaxWorks

\* Two work-basis staff members and one on a monthly salary.
StaffTable ==
    [s \in StaffIds |-> [exists |-> TRUE, type |-> IF s = 3 THEN "MONTHLY" ELSE "WORK_BASIS"]]

WorkItemTable == [w \in WorkItemIds |-> [exists |-> TRUE, rateNrs |-> 500]]

\* The month the previews are asked for, and the instants work is performed at:
\* around both ends of that month.
QueryMonths == {12}
QueryYears  == {2024}

PerformedAtChoices ==
    {At(2024, 12, 1, 0), At(2024, 12, 31, 0), At(2024, 12, 31, 12), At(2025, 1, 1, 0)}

\* A StaffWork row. workItemId 0 is NULL; quantity and unitRateNrs may be NULL.
StaffWorkRow(s, w, title, q, r, t) ==
    [state |-> "live", staffId |-> s, workItemId |-> w, hasTitle |-> title,
     quantity |-> q, unitRateNrs |-> r, performedAt |-> t]

FreeStaffWork ==
    [state |-> "free", staffId |-> 0, workItemId |-> 0, hasTitle |-> FALSE,
     quantity |-> JsNull, unitRateNrs |-> JsNull, performedAt |-> 0]

\* CreateStaffWorkDto: workItemId, quantity and unitRateNrs are optional; title
\* is kept as present or absent.
CreateStaffWorkDto ==
    [staffId : StaffIds, workItemId : {Undefined, Opt(TRUE, 1), Opt(TRUE, 2)},
     hasTitle : BOOLEAN,
     quantity : {Undefined, Opt(TRUE, 2), Opt(TRUE, 3)},
     unitRateNrs : {Undefined, Opt(TRUE, 200)},
     performedAt : PerformedAtChoices]

\* The requests the model sends: work of a work item with its quantity given
\* and no title, or a title alone.
StaffWorkRequests ==
    {dto \in CreateStaffWorkDto :
        \/ dto.workItemId.has /\ dto.quantity.has /\ ~dto.hasTitle
        \/ ~dto.workItemId.has /\ ~dto.quantity.has /\ ~dto.unitRateNrs.has}

\* if (createStaffWorkDto.workItemId): undefined and 0 are falsy.
Truthy(opt) == opt.has /\ opt.val # 0

WorkItemFound(w) == w \in WorkItemIds /\ workItems[w].exists

\* The unit rate after "Set default rate if not provided".
DefaultedUnitRate(dto) ==
    IF dto.unitRateNrs.has THEN dto.unitRateNrs.val ELSE workItems[dto.workItemId.val].rateNrs

\* createData as the table stores it: quantity and unitRateNrs are set only with
\* a work item; a quantity that is not set takes the column default 1.
CreateData(dto) ==
    IF Truthy(dto.workItemId)
    THEN StaffWorkRow(dto.staffId, dto.workItemId.val, dto.hasTitle,
                      IF dto.quantity.has THEN JsValue(dto.quantity.val) ELSE JsValue(1),
                      JsValue(DefaultedUnitRate(dto)), dto.performedAt)
    ELSE StaffWorkRow(dto.staffId, 0, dto.hasTitle, JsValue(1), JsNull, dto.performedAt)

\* What StaffWorksService.create answers.
CreateOutcome(dto) ==
    IF Truthy(dto.workItemId) /\ ~WorkItemFound(dto.workItemId.val) THEN "NotFoundException"
    ELSE IF ~Truthy(dto.workItemId) /\ ~dto.hasTitle THEN "Error"
    ELSE IF ~(dto.staffId \in StaffIds /\ staff[dto.staffId].exists) THEN "PrismaRecordNotFound"
    ELSE "ok"

HasFreeWork == \E i \in WorkIds : staffWorks[i].state = "free"
\* nextval of the id sequence: ids are handed out in order.
NextWorkId  == CHOOSE i \in WorkIds : staffWorks[i].state = "free" /\ \A j \in WorkIds : j < i => staffWorks[j].state # "free"

NoPreview == [month |-> 0, year |-> 0, calls |-> <<>>]

InitPayoutEmpty ==
    /\ staff = StaffTable
    /\ workItems = WorkItemTable
    /\ staffWorks = [i \in WorkIds |-> FreeStaffWork]
    /\ preview = NoPreview

\* POST /staff-works
StaffWorkCreate(dto) ==
    /\ HasFreeWork
    /\ IF CreateOutcome(dto) = "ok"
       THEN staffWorks' = [staffWorks EXCEPT ![NextWorkId] = CreateData(dto)]
       ELSE staffWorks' = staffWorks
    /\ preview' = NoPreview
    /\ UNCHANGED <<staff, workItems, notPayoutVars>>

-----------------------------------------------------------------------------
(* StaffWorksService.update and WorkItemsService.remove *)

\* The fields of UpdateStaffWorkDto the update reads: workItemId is undefined,
\* null or an id; title is undefined, empty or a text; quantity and unitRateNrs
\* are given or not.
UpdateStaffWorkDto ==
    [workItemId : {[kind |-> "undefined", val |-> 0], [kind |-> "null", val |-> 0],
                   [kind |-> "id", val |-> 1]},
     title : {"undefined", "empty", "text"},
     quantity : {Undefined, Opt(TRUE, 2)},
     unitRateNrs : {Undefined, Opt(TRUE, 200)}]

StaffWorkFound(i) == i \in WorkIds /\ staffWorks[i].state = "live"

\* const workItemId = dto.workItemId !== undefined ? dto.workItemId : existingWork.workItemId
UpdatedWorkItemId(existingWork, dto) ==
    IF dto.workItemId.kind = "undefined" THEN existingWork.workItemId ELSE dto.workItemId.val

\* const title = dto.title !== undefined ? dto.title : existingWork.title, as truthy or not
UpdatedTitle(existingWork, dto) ==
    IF dto.title = "undefined" THEN existingWork.hasTitle ELSE dto.title = "text"

UpdateOutcome(i, dto) ==
    IF ~StaffWorkFound(i) THEN "NotFoundException"
    ELSE IF dto.workItemId.kind = "id" /\ ~WorkItemFound(dto.workItemId.val) THEN "NotFoundException"
    ELSE IF UpdatedWorkItemId(staffWorks[i], dto) = 0 /\ ~UpdatedTitle(staffWorks[i], dto) THEN "Error"
    ELSE "ok"

\* updateData applied to the row: the work item and what goes with it, the
\* title, then the quantity and the unit rate the request gives.
ApplyUpdateStaffWork(row, dto) ==
    LET item  == IF dto.workItemId.kind = "null"
                 THEN [row EXCEPT !.workItemId = 0, !.quantity = JsNull, !.unitRateNrs = JsNull]
                 ELSE IF dto.workItemId.kind = "id"
                 THEN [row EXCEPT !.workItemId = dto.workItemId.val,
                                  !.unitRateNrs = IF dto.unitRateNrs.has THEN @
                                                  ELSE JsValue(workItems[dto.workItemId.val].rateNrs)]
                 ELSE row
        named == IF dto.title = "undefined" THEN item ELSE [item EXCEPT !.hasTitle = (dto.title = "text")]
        sized == IF dto.quantity.has THEN [named EXCEPT !.quantity = JsValue(dto.quantity.val)] ELSE named
    IN  IF dto.unitRateNrs.has THEN [sized EXCEPT !.unitRateNrs = JsValue(dto.unitRateNrs.val)] ELSE sized

\* PATCH /staff-works/:id
StaffWorkUpdate(i, dto) ==
    /\ IF UpdateOutcome(i, dto) = "ok"
       THEN staffWorks' = [staffWorks EXCEPT ![i] = ApplyUpdateStaffWork(staffWorks[i], dto)]
       ELSE staffWorks' = staffWorks
    /\ last' = [op |-> "staffWorks.update", out |-> UpdateOutcome(i, dto), id |-> i,
                unitRateNrs |-> dto.unitRateNrs]
    /\ preview' = NoPreview
    /\ UNCHANGED <<staff, workItems, payments, clientVars, ledgerVars, classifyVars, reminderVars>>

\* The rateNrs of an UpdateWorkItemDto: not given, or a new rate.
UpdateRateChoices == {Undefined, Opt(TRUE, 600)}

\* PATCH /work-items/:id: findOne, then the update with the fields given.
WorkItemUpdate(w, rateNrs) ==
    /\ IF WorkItemFound(w)
       THEN /\ workItems' = [workItems EXCEPT ![w].rateNrs = IF rateNrs.has THEN rateNrs.val ELSE @]
            /\ last' = [op |-> "workItems.update", out |-> "ok"]
       ELSE /\ workItems' = workItems
            /\ last' = [op |-> "workItems.update", out |-> "NotFoundException"]
    /\ preview' = NoPreview
    /\ UNCHANGED <<staff, staffWorks, payments, clientVars, ledgerVars, classifyVars, reminderVars>>

\* StaffWork_workItemId_fkey ... ON DELETE SET NULL
OnDeleteSetNull(w) ==
    [i \in WorkIds |-> IF staffWorks[i].state = "live" /\ staffWorks[i].workItemId = w
                       THEN [staffWorks[i] EXCEPT !.workItemId = 0]
                       ELSE staffWorks[i]]

\* DELETE /work-items/:id
WorkItemRemove(w) ==
    /\ IF WorkItemFound(w)
       THEN /\ workItems' = [workItems EXCEPT ![w].exists = FALSE]
            /\ staffWorks' = OnDeleteSetNull(w)
            /\ last' = [op |-> "workItems.remove", out |-> "ok"]
       ELSE /\ UNCHANGED <<workItems, staffWorks>>
            /\ last' = [op |-> "workItems.remove", out |-> "NotFoundException"]
    /\ preview' = NoPreview
    /\ UNCHANGED <<staff, payments, clientVars, ledgerVars, classifyVars, reminderVars>>

-----------------------------------------------------------------------------
(* AccountsService.getStaffWorkPayoutPreview *)

\* if (staffId): the filter is set for a truthy staffId; 0 stands for undefined.
StaffIdArgs == {0} \cup StaffIds

\* The where condition of the findMany.
WhereCondition(work, startDate, endDate, staffId) ==
    /\ work.state = "live"
    /\ work.performedAt >= startDate
    /\ work.performedAt <= endDate
    /\ staff[work.staffId].type = "WORK_BASIS"
    /\ (staffId # 0 => work.staffId = staffId)

\* The ids of 1..n that satisfy Keep, in ascending order.
RECURSIVE Ascending(_, _)
Ascending(n, keep) ==
    IF n = 0 THEN <<>>
    ELSE IF n \in keep THEN Append(Ascending(n - 1, keep), n) ELSE Ascending(n - 1, keep)

\* staffWork.findMany: the selected rows, in id order.
FindManyStaffWorks(month, year, staffId) ==
    LET startDate == JsDate(year, month - 1, 1)
        endDate   == JsDate(year, month, 0)
    IN  Ascending(MaxWorks, {i \in WorkIds : WhereCondition(staffWorks[i], startDate, endDate, staffId)})

\* a * b on two values that may be null: null counts as 0.
JsMul(a, b) == (IF a.null THEN 0 ELSE a.val) * (IF b.null THEN 0 ELSE b.val)

\* const workTotal = work.quantity * work.unitRateNrs
WorkTotal(work) == JsMul(work.quantity, work.unitRateNrs)

\* The line item pushed for one row.
WorkLine(i) ==
    [id |-> i, quantity |-> staffWorks[i].quantity, unitRate |-> staffWorks[i].unitRateNrs,
     total |-> WorkTotal(staffWorks[i]), performedAt |-> staffWorks[i].performedAt]

RECURSIVE SumLines(_)
SumLines(lines) ==
    IF lines = <<>> THEN 0 ELSE Head(lines).total + SumLines(Tail(lines))

\* acc[staffKey] after the reduce: the lines of that staff member's rows in the
\* order of the rows, and their total.
StaffEntry(s, rows) ==
    LET mine  == SelectSeq(rows, LAMBDA i : staffWorks[i].staffId = s)
        lines == [k \in 1..Len(mine) |-> WorkLine(mine[k])]
    IN  [staffId |-> s, totalAmount |-> SumLines(lines), works |-> lines]

\* work.workItem.title throws a TypeError on a row with no work item.
ReduceThrows(rows) == \E k \in 1..Len(rows) : staffWorks[rows[k]].workItemId = 0

\* Object.values(payoutPreview): the keys are integers, which an object lists in
\* ascending order.
ObjectValues(rows) ==
    LET keys  == {staffWorks[rows[k]].staffId : k \in 1..Len(rows)}
        order == Ascending(Cardinality(StaffIds), keys)
    IN  [k \in 1..Len(order) |-> StaffEntry(order[k], rows)]

\* One call of getStaffWorkPayoutPreview(month, year, staffId).
PayoutPreview(month, year, staffId) ==
    LET rows == FindManyStaffWorks(month, year, staffId)
    IN  IF ReduceThrows(rows)
        THEN [out |-> "TypeError", entries |-> <<>>]
        ELSE [out |-> "ok", entries |-> ObjectValues(rows)]

\* GET /accounts/staff-work-payout-preview for one month and year, once with
\* each staffId argument, all on the same state of the tables.
GetStaffWorkPayoutPreview(month, year) ==
    /\ preview' = [month |-> month, year |-> year,
                   calls |-> [a \in StaffIdArgs |-> PayoutPreview(month, year, a)]]
    /\ UNCHANGED <<staff, workItems, staffWorks, notPayoutVars>>

-----------------------------------------------------------------------------
(* RemindersService.getPriorityAndStages *)

\* The arguments the model calls the function with: around 0, and the contract
\* of 100 days.
TotalDaysChoices     == (-8..8) \cup {100}
DaysRemainingChoices == (-5..5) \cup {10, 25, 26, 40, 50, 51, 90}

\* Math.floor(n * num / den) for the decimal fraction num / den.
MathFloorTimes(n, num, den) == (n * num) \div den

\* A classification that takes the thresholds as exclusive.
GetPriorityAndStagesExclusive(totalDays, daysRemaining) ==
    LET halfwayPoint == MathFloorTimes(totalDays, 5, 10)
        quarterPoint == MathFloorTimes(totalDays, 25, 100)
    IN  IF daysRemaining < quarterPoint THEN [priority |-> "URGENT", stage |-> "FINAL"]
        ELSE IF daysRemaining < halfwayPoint THEN [priority |-> "HIGH", stage |-> "MIDPOINT"]
        ELSE [priority |-> "MEDIUM", stage |-> "INITIAL"]

GetPriorityAndStages(totalDays, daysRemaining) ==
    LET halfwayPoint == MathFloorTimes(totalDays, 5, 10)
        quarterPoint == MathFloorTimes(totalDays, 25, 100)
    IN  IF daysRemaining <= quarterPoint THEN [priority |-> "URGENT", stage |-> "FINAL"]
        ELSE IF daysRemaining <= halfwayPoint THEN [priority |-> "HIGH", stage |-> "MIDPOINT"]
        ELSE [priority |-> "MEDIUM", stage |-> "INITIAL"]

NoClassified ==
    [called |-> FALSE, totalDays |-> 0, daysRemaining |-> 0, priority |-> "", stage |-> ""]

InitClassifyEmpty == classified = NoClassified

\* One call of the function.
Classify(totalDays, daysRemaining) ==
    /\ classified' =
           [called |-> TRUE, totalDays |-> totalDays, daysRemaining |-> daysRemaining,
            priority |-> GetPriorityAndStages(totalDays, daysRemaining).priority,
            stage |-> GetPriorityAndStages(totalDays, daysRemaining).stage]
    /\ UNCHANGED <<clientVars, ledgerVars, payoutVars, reminderVars, refVars>>

-----------------------------------------------------------------------------
(* The contract columns of the Client table, and the clock *)

HoursPerDay  == 24    \* 24 * 60 * 60 * 1000 ms, in hours
ReminderDays == 30    \* setDate(now.getDate() + 30)
MaxRuns      == 2     \* runs of the daily scan in one behaviour
MaxDays      == 2     \* days the clock goes on between requests

\* contractStartDate of the stored clients, in hours from the first run of the
\* scan: in the past, within a day, a week and a month, and around both ends of
\* the scan's window.
ContractStartChoices == {-24, 12, 100, 695, 696, 720, 721}
ClientTypes          == {"ACTIVE", "INACTIVE"}
DurationChoices      == {1, 30, 365}    \* contractDurationDays (@Min(1))

ContractRow(type, start, days) ==
    [exists |-> TRUE, type |-> type, contractStartDate |-> start, contractDurationDays |-> days]

NoContract ==
    [exists |-> FALSE, type |-> "", contractStartDate |-> 0, contractDurationDays |-> 0]

\* Client 1 has any contract; client 2 is absent or an active client whose
\* contract starts within a day or on an end of the first window.
InitialContracts ==
    {t \in [ClientIds -> {ContractRow(ty, st, d) : ty \in ClientTypes, st \in ContractStartChoices,
                                                   d \in DurationChoices} \cup {NoContract}] :
        /\ t[1].exists
        /\ t[2] \in {NoContract} \cup {ContractRow("ACTIVE", st, 30) : st \in {12, 696, 720}}}

\* d.setDate(now.getDate() + days): the same time of day, days later.
SetDatePlus(date, days) == date + days * HoursPerDay

\* Math.ceil(hours / 24)
MathCeilDays(hours) == 0 - ((0 - hours) \div HoursPerDay)

\* The ids of the stored clients a where-clause selects, in ascending order.
RECURSIVE ClientsWhere(_, _)
ClientsWhere(n, keep) ==
    IF n = 0 THEN <<>>
    ELSE IF n \in keep THEN Append(ClientsWhere(n - 1, keep), n)
    ELSE ClientsWhere(n - 1, keep)

-----------------------------------------------------------------------------
(* AccountsService.getSummary: the counts *)

\* where: { type: 'ACTIVE', AND: [{lte: now}, {lte: horizon}, {gt: now}] }
ExpiringWhere(c, nowDate, horizon) ==
    /\ contracts[c].exists
    /\ contracts[c].type = "ACTIVE"
    /\ contracts[c].contractStartDate <= nowDate
    /\ contracts[c].contractStartDate <= horizon
    /\ contracts[c].contractStartDate > nowDate

\* prisma.client.count({where})
CountExpiring(nowDate, days) ==
    Cardinality({c \in ClientIds : ExpiringWhere(c, nowDate, SetDatePlus(nowDate, days))})

NoCounts ==
    [returned |-> FALSE, at |-> 0, contractsExpiringIn30Days |-> 0,
     contractsExpiringIn7Days |-> 0, contractsExpiringIn1Day |-> 0]

\* The counts of one getSummary call made at the time now.
SummaryCounts ==
    /\ counts' = [returned |-> TRUE, at |-> now,
                  contractsExpiringIn30Days |-> CountExpiring(now, 30),
                  contractsExpiringIn7Days  |-> CountExpiring(now, 7),
                  contractsExpiringIn1Day   |-> CountExpiring(now, 1)]
    /\ UNCHANGED <<contracts, now, runs, adminReminders, mails, scan, cronRuns, notReminderVars>>

-----------------------------------------------------------------------------
(* RemindersService: the daily scan *)

\* A window that leaves out its earlier end.
ReminderWhereAfterStart(c, nowDate) ==
    LET thirtyDaysFromNow == SetDatePlus(nowDate, ReminderDays)
    IN  /\ contracts[c].exists
        /\ contracts[c].contractStartDate <= thirtyDaysFromNow
        /\ contracts[c].contractStartDate > thirtyDaysFromNow - HoursPerDay

\* where: contractStartDate lte thirtyDaysFromNow, gte thirtyDaysFromNow - 24 h
ReminderWhere(c, nowDate) ==
    LET thirtyDaysFromNow == SetDatePlus(nowDate, ReminderDays)
    IN  /\ contracts[c].exists
        /\ contracts[c].contractStartDate <= thirtyDaysFromNow
        /\ contracts[c].contractStartDate >= thirtyDaysFromNow - HoursPerDay

\* A map that counts the days to the start of the contract, not to its end.
ReminderOfDaysToStart(c, nowDate) ==
    LET totalContractDays == contracts[c].contractDurationDays
        daysRemaining == MathCeilDays(contracts[c].contractStartDate - nowDate)
    IN  [id |-> c, contractStartDate |-> contracts[c].contractStartDate,
         daysUntilExpiry |-> daysRemaining,
         priority |-> GetPriorityAndStages(totalContractDays, daysRemaining).priority,
         stage |-> GetPriorityAndStages(totalContractDays, daysRemaining).stage]

\* clients30Days.map(...): the client with its days remaining, priority and stage.
ReminderOf(c, nowDate) ==
    LET totalContractDays == contracts[c].contractDurationDays
        daysRemaining == MathCeilDays(contracts[c].contractStartDate
                                          + totalContractDays * HoursPerDay - nowDate)
    IN  [id |-> c, contractStartDate |-> contracts[c].contractStartDate,
         daysUntilExpiry |-> daysRemaining,
         priority |-> GetPriorityAndStages(totalContractDays, daysRemaining).priority,
         stage |-> GetPriorityAndStages(totalContractDays, daysRemaining).stage]

GetClientsForReminder(nowDate) ==
    LET ids == ClientsWhere(Cardinality(ClientIds), {c \in ClientIds : ReminderWhere(c, nowDate)})
    IN  [k \in 1..Len(ids) |-> ReminderOf(ids[k], nowDate)]

\* A reminder row stored without its client.
CreateAdminReminderUnlinked(reminderData) ==
    [type |-> reminderData.type,
     priority |-> IF reminderData.priority = "" THEN "MEDIUM" ELSE reminderData.priority,
     dueDate |-> reminderData.dueDate, clientId |-> 0,
     stage |-> reminderData.stage]

\* The row prisma.adminReminder.create stores; a priority that is not set is MEDIUM.
CreateAdminReminder(reminderData) ==
    [type |-> reminderData.type,
     priority |-> IF reminderData.priority = "" THEN "MEDIUM" ELSE reminderData.priority,
     dueDate |-> reminderData.dueDate, clientId |-> reminderData.clientId,
     stage |-> reminderData.stage]

\* A notification method that lets a failure of the transport escape.
SendAdminReminderEmailUncaught(client, failing) ==
    [attempt |-> [clientId |-> client.id, stage |-> client.stage,
                  daysUntilExpiry |-> client.daysUntilExpiry,
                  delivered |-> client.id \notin failing],
     out |-> IF client.id \in failing THEN "thrown" ELSE "ok"]

\* sendAdminReminderEmail: one sendMail; its failure is caught and logged.
SendAdminReminderEmail(client, failing) ==
    [attempt |-> [clientId |-> client.id, stage |-> client.stage,
                  daysUntilExpiry |-> client.daysUntilExpiry,
                  delivered |-> client.id \notin failing],
     out |-> "ok"]

\* for (const reminder of reminders): create the row, then send the mail; an
\* exception ends the loop.
RECURSIVE ReminderLoop(_, _)
ReminderLoop(reminders, failing) ==
    IF reminders = <<>> THEN [created |-> <<>>, attempts |-> <<>>, out |-> "ok"]
    ELSE LET reminder == Head(reminders)
             row  == CreateAdminReminder([type |-> "CONTRACT_EXPIRY", priority |-> reminder.priority,
                                          dueDate |-> reminder.contractStartDate,
                                          clientId |-> reminder.id, stage |-> reminder.stage])
             mail == SendAdminReminderEmail(reminder, failing)
             rest == ReminderLoop(Tail(reminders), failing)
         IN  IF mail.out = "thrown"
             THEN [created |-> <<row>>, attempts |-> <<mail.attempt>>, out |-> "thrown"]
             ELSE [created |-> <<row>> \o rest.created,
                   attempts |-> <<mail.attempt>> \o rest.attempts, out |-> rest.out]

\* The runs of the scheduled handler that may be in progress at once.
RunSlots == 1..MaxRuns

NoRun == [pc |-> "idle", at |-> 0, reminders |-> <<>>, done |-> 0]

NoScan == [ran |-> FALSE, at |-> 0, reminders |-> <<>>, failing |-> {},
           created |-> <<>>, attempts |-> <<>>, out |-> ""]

InitRemindersEmpty ==
    /\ contracts = [c \in ClientIds |-> NoContract]
    /\ now = 0
    /\ runs = 0
    /\ adminReminders = <<>>
    /\ mails = <<>>
    /\ scan = NoScan
    /\ counts = NoCounts
    /\ cronRuns = [r \in RunSlots |-> NoRun]

\* @Cron('0 9 * * *'): one run of the scan at the time now; the transport fails
\* for the clients in failing. The clock then stands at the next run.
SendContractExpiryReminders(failing) ==
    /\ runs < MaxRuns
    /\ LET reminders == GetClientsForReminder(now)
           loop == ReminderLoop(reminders, failing)
       IN  /\ adminReminders' = adminReminders \o loop.created
           /\ mails' = mails \o loop.attempts
           /\ scan' = [ran |-> TRUE, at |-> now, reminders |-> reminders, failing |-> failing,
                       created |-> loop.created, attempts |-> loop.attempts, out |-> loop.out]
    /\ runs' = runs + 1
    /\ now' = SetDatePlus(now, 1)
    /\ counts' = NoCounts
    /\ UNCHANGED <<contracts, cronRuns, notReminderVars>>

\* The scheduler calls the handler at the time now: the handler awaits
\* getClientsForReminder and enters its loop. Nothing looks at the runs that
\* have not returned yet. The clock then stands at the next trigger.
CronTrigger(r) ==
    /\ runs < MaxRuns
    /\ cronRuns[r].pc = "idle"
    /\ cronRuns' = [cronRuns EXCEPT ![r] = [pc |-> "loop", at |-> now,
                                            reminders |-> GetClientsForReminder(now),
                                            done |-> 0]]
    /\ runs' = runs + 1
    /\ now' = SetDatePlus(now, 1)
    /\ UNCHANGED <<contracts, adminReminders, mails, scan, counts, notReminderVars>>

\* One iteration of the loop of a run: await createAdminReminder, then await
\* sendAdminReminderEmail, whose failure is caught.
CronStep(r, failing) ==
    /\ cronRuns[r].pc = "loop"
    /\ cronRuns[r].done < Len(cronRuns[r].reminders)
    /\ LET reminder == cronRuns[r].reminders[cronRuns[r].done + 1]
           row  == CreateAdminReminder([type |-> "CONTRACT_EXPIRY", priority |-> reminder.priority,
                                        dueDate |-> reminder.contractStartDate,
                                        clientId |-> reminder.id, stage |-> reminder.stage])
           mail == SendAdminReminderEmail(reminder, failing)
       IN  /\ adminReminders' = Append(adminReminders, row)
           /\ mails' = Append(mails, mail.attempt)
    /\ cronRuns' = [cronRuns EXCEPT ![r].done = @ + 1]
    /\ UNCHANGED <<contracts, now, runs, scan, counts, notReminderVars>>

\* The loop of a run is over and the handler returns.
CronReturn(r) ==
    /\ cronRuns[r].pc = "loop"
    /\ cronRuns[r].done = Len(cronRuns[r].reminders)
    /\ cronRuns' = [cronRuns EXCEPT ![r] = NoRun]
    /\ UNCHANGED <<contracts, now, runs, adminReminders, mails, scan, counts, notReminderVars>>

-----------------------------------------------------------------------------
(* Requests that name another entity's id *)

NoLast == [op |-> "none", out |-> "none"]

InitRefsEmpty ==
    /\ last = NoLast
    /\ payments = <<>>

\* The ids the requests name: every table has ids that exist and one that does not.
RequestStaffIds    == StaffIds \cup {4}
InfluencerIds      == {1}
CollaborationIds   == {1}
RequestInfluencerIds    == InfluencerIds \cup {2}
RequestCollaborationIds == CollaborationIds \cup {2}

StaffFound(id) == id \in StaffIds /\ staff[id].exists

\* The rows of every table a request of this section may write.
Tables ==
    [incomes |-> incomes, expenses |-> expenses, staffWorks |-> staffWorks,
     adminReminders |-> adminReminders, payments |-> payments]

\* What the request answered: missing says that it named an id that does not
\* exist, before holds the tables as they were when it arrived.
Answer(op, out, missing) == [op |-> op, out |-> out, missing |-> missing, before |-> Tables]

\* What no request of this section writes.
refFixedVars ==
    <<clients, nextId, calls, resp, summary, staff, workItems, preview, classified,
      contracts, now, runs, mails, scan, counts, cronRuns>>

\* IncomeService.create with any clientId: Income_clientId_fkey rejects the
\* insert for a client that does not exist.
IncomeServiceCreate(c, amt) ==
    /\ started < MaxRequests
    /\ HasFree(incomes)
    /\ started' = started + 1
    /\ IF FindOneFound(c)
       THEN /\ incomes' = [incomes EXCEPT ![NextRowId(incomes)] = IncomeRow(c, amt)]
            /\ last' = Answer("income.create", "ok", FALSE)
       ELSE /\ incomes' = incomes
            /\ last' = Answer("income.create", "PrismaForeignKeyError", TRUE)
    /\ UNCHANGED <<expenses, staffWorks, adminReminders, payments, refFixedVars>>

\* The StaffWork creates of this section: a work item that exists or not, for a
\* staff member that exists or not.
StaffWorkRefRequests ==
    {[staffId |-> s, workItemId |-> Opt(TRUE, w), hasTitle |-> FALSE,
      quantity |-> Opt(TRUE, 2), unitRateNrs |-> Undefined, performedAt |-> At(2024, 12, 1, 0)] :
        s \in {1, 4}, w \in {1, 2}}

\* StaffWorksService.create, with its answer.
StaffWorksServiceCreate(dto) ==
    /\ started < MaxRequests
    /\ HasFreeWork
    /\ started' = started + 1
    /\ IF CreateOutcome(dto) = "ok"
       THEN staffWorks' = [staffWorks EXCEPT ![NextWorkId] = CreateData(dto)]
       ELSE staffWorks' = staffWorks
    /\ last' = Answer("staffWorks.create", CreateOutcome(dto),
                      ~StaffFound(dto.staffId)
                          \/ (Truthy(dto.workItemId) /\ ~WorkItemFound(dto.workItemId.val)))
    /\ UNCHANGED <<incomes, expenses, adminReminders, payments, refFixedVars>>

\* RemindersService.createReminder: findUniqueOrThrow for a clientId and a
\* staffId that are given (0: not given), then the create.
CreateReminderOutcome(clientId, staffId) ==
    IF clientId # 0 /\ ~(clientId \in ClientIds /\ FindOneFound(clientId)) THEN "PrismaNotFoundError"
    ELSE IF staffId # 0 /\ ~StaffFound(staffId) THEN "PrismaNotFoundError"
    ELSE "ok"

CreateReminder(clientId, staffId) ==
    /\ started < MaxRequests
    /\ started' = started + 1
    /\ IF CreateReminderOutcome(clientId, staffId) = "ok"
       THEN adminReminders' = Append(adminReminders,
                [type |-> "GENERAL", priority |-> "MEDIUM", dueDate |-> 0,
                 clientId |-> clientId, staffId |-> staffId, stage |-> ""])
       ELSE adminReminders' = adminReminders
    /\ last' = Answer("reminders.create", CreateReminderOutcome(clientId, staffId),
                      (clientId # 0 /\ ~(clientId \in ClientIds /\ FindOneFound(clientId)))
                          \/ (staffId # 0 /\ ~StaffFound(staffId)))
    /\ UNCHANGED <<incomes, expenses, staffWorks, payments, refFixedVars>>

\* PaymentsService.create: findUniqueOrThrow for the influencer and for a
\* collaborationId that is given (0: not given), then the create.
PaymentCreateOutcome(influencerId, collaborationId) ==
    IF influencerId \notin InfluencerIds THEN "PrismaNotFoundError"
    ELSE IF collaborationId # 0 /\ collaborationId \notin CollaborationIds THEN "PrismaNotFoundError"
    ELSE "ok"

\* dueDate: createPaymentDto.dueDate ? new Date(createPaymentDto.dueDate) : null
PaymentsServiceCreate(influencerId, collaborationId, status, dueDate) ==
    /\ started < MaxRequests
    /\ started' = started + 1
    /\ IF PaymentCreateOutcome(influencerId, collaborationId) = "ok"
       THEN payments' = Append(payments, [influencerId |-> influencerId,
                                          collaborationId |-> collaborationId,
                                          status |-> status, dueDate |-> dueDate])
       ELSE payments' = payments
    /\ last' = Answer("payments.create", PaymentCreateOutcome(influencerId, collaborationId),
                      influencerId \notin InfluencerIds
                          \/ (collaborationId # 0 /\ collaborationId \notin CollaborationIds))
    /\ UNCHANGED <<incomes, expenses, staffWorks, adminReminders, refFixedVars>>

-----------------------------------------------------------------------------
(* PaymentsService.markAsOverdue *)

PaymentStatuses == {"PENDING", "PAID", "OVERDUE", "CANCELLED"}

\* The due dates of the stored payments, in hours from the first instant of
\* the clock: none, a day before, that instant, a day after.
DueDateChoices == {JsNull, JsValue(-24), JsValue(0), JsValue(24)}

\* A where condition that does not look at the status.
OverdueWhereAnyStatus(payment, today) ==
    ~payment.dueDate.null /\ payment.dueDate.val < today

\* where: { status: 'PENDING', dueDate: { lt: today } }; lt never matches null.
OverdueWhere(payment, today) ==
    /\ payment.status = "PENDING"
    /\ ~payment.dueDate.null /\ payment.dueDate.val < today

\* payment.updateMany({ where, data: { status: 'OVERDUE' } }) and its count.
UpdateManyOverdue(today) ==
    [rows  |-> [k \in 1..Len(payments) |->
                   IF OverdueWhere(payments[k], today)
                   THEN [payments[k] EXCEPT !.status = "OVERDUE"] ELSE payments[k]],
     count |-> Cardinality({k \in 1..Len(payments) : OverdueWhere(payments[k], today)})]

\* POST /payments/mark-overdue at the time now. again: the request before it
\* was a markAsOverdue at the same instant.
MarkAsOverdue ==
    /\ payments' = UpdateManyOverdue(now).rows
    /\ last' = [op |-> "payments.markAsOverdue", out |-> "ok",
                count |-> UpdateManyOverdue(now).count, at |-> now, before |-> payments,
                again |-> (last.op = "payments.markAsOverdue" /\ last.at = now)]
    /\ UNCHANGED <<clientVars, ledgerVars, payoutVars, classifyVars, reminderVars>>

\* A day passes between two requests.
TimePasses ==
    /\ now < MaxDays * HoursPerDay
    /\ now' = now + HoursPerDay
    /\ UNCHANGED <<contracts, runs, adminReminders, mails, scan, counts, cronRuns, notReminderVars>>

-----------------------------------------------------------------------------
(* StaffService.monthlyPayout *)

\* A payout that does not look at the staff member's type.
MonthlyPayoutOutcomeAnyType(id) ==
    IF ~StaffFound(id) THEN "NotFoundException" ELSE "ok"

MonthlyPayoutOutcome(id) ==
    IF ~StaffFound(id) THEN "NotFoundException"
    ELSE IF staff[id].type # "MONTHLY" THEN "BadRequestException"
    ELSE "ok"

\* The Expense row of a payout.
PayoutExpenseRow(id, amt) == [ExpenseRow("STAFF_MONTHLY", amt) EXCEPT !.staffId = id]

\* POST /staff/:id/monthly-payout
MonthlyPayout(id, amt) ==
    /\ started < MaxRequests
    /\ HasFree(expenses)
    /\ started' = started + 1
    /\ IF MonthlyPayoutOutcome(id) = "ok"
       THEN expenses' = [expenses EXCEPT ![NextRowId(expenses)] = PayoutExpenseRow(id, amt)]
       ELSE expenses' = expenses
    /\ last' = Answer("staff.monthlyPayout", MonthlyPayoutOutcome(id), ~StaffFound(id))
                    @@ [id |-> id, amountNrs |-> amt]
    /\ UNCHANGED <<incomes, staffWorks, adminReminders, payments, refFixedVars>>

-----------------------------------------------------------------------------
(* The Client store under every client request, from the empty table *)

Init ==
    /\ clients = [c \in ClientIds |-> NoClient]
    /\ nextId = 1
    /\ calls = [s \in Slots |-> Idle]
    /\ started = 0
    /\ resp = NoResp
    /\ InitLedgerEmpty
    /\ InitPayoutEmpty
    /\ InitClassifyEmpty
    /\ InitRemindersEmpty
    /\ InitRefsEmpty

Next ==
    \/ \E dto \in CreateClientDto : Create(dto)
    \/ \E id \in ClientIds : FindOne(id)
    \/ \E id \in ClientIds, dto \in UpdateClientDto : UpdateFindOne(id, dto)
    \/ \E s \in Slots : UpdateWrite(s)
    \/ \E id \in ClientIds : RemoveFindOne(id)
    \/ \E s \in Slots : RemoveDelete(s)
    \/ \E id \in ClientIds, dto \in AdjustAccountDto : AdjustFindOne(id, dto)
    \/ \E s \in Slots : AdjustTransaction(s)

Spec == Init /\ [][Next]_vars

-----------------------------------------------------------------------------
(* Clients that satisfy the accounting identity, under adjustAccount calls  *)
(* that run concurrently with each other, with remove and with readers      *)

\* The rows a create stores: due = locked - advance.
CreatedRows == {ClientRow(l, a, l - a) : l \in Amounts, a \in Amounts}

\* Client 1 starts absent or with any created row; client 2, the bystander of
\* the calls on client 1 and the target of some, starts absent or with one row.
InitialTables ==
    {t \in [ClientIds -> CreatedRows \cup {NoClient}] :
        t[2] \in {NoClient, ClientRow(1, 0, 1)}}

InitAdjust ==
    /\ clients \in InitialTables
    /\ nextId = 1 + Cardinality(ClientIds)
    /\ calls = [s \in Slots |-> Idle]
    /\ started = 0
    /\ resp = NoResp
    /\ InitLedgerEmpty
    /\ InitPayoutEmpty
    /\ InitClassifyEmpty
    /\ InitRemindersEmpty
    /\ InitRefsEmpty

NextAdjust ==
    \/ \E id \in ClientIds : FindOne(id)
    \/ \E id \in ClientIds : RemoveFindOne(id)
    \/ \E s \in Slots : RemoveDelete(s)
    \/ \E id \in ClientIds, dto \in AdjustAccountDto : AdjustFindOne(id, dto)
    \/ \E s \in Slots : AdjustTransaction(s)

SpecAdjust == InitAdjust /\ [][NextAdjust]_vars

InitSummary ==
    /\ clients = [c \in ClientIds |-> ClientRow(0, 0, 0)]
    /\ nextId = 1 + Cardinality(ClientIds)
    /\ calls = [s \in Slots |-> Idle]
    /\ started = 0
    /\ resp = NoResp
    /\ InitLedgerEmpty
    /\ InitPayoutEmpty
    /\ InitClassifyEmpty
    /\ InitRemindersEmpty
    /\ InitRefsEmpty

NextSummary ==
    \/ \E c \in ClientIds, amt \in IncomeAmounts : IncomeCreate(c, amt)
    \/ \E i \in RowIds, amt \in IncomeAmounts : IncomeUpdate(i, amt)
    \/ \E i \in RowIds : IncomeRemove(i)
    \/ \E src \in ExpenseSources, amt \in ExpenseAmounts : ExpenseCreate(src, amt)
    \/ \E i \in RowIds, amt \in ExpenseAmounts : ExpenseUpdate(i, amt)
    \/ \E i \in RowIds : ExpenseRemove(i)
    \/ SummaryAggregateIncome
    \/ SummaryAggregateExpense
    \/ SummaryIncomeByClient
    \/ SummaryExpenseBySource

SpecSummary == InitSummary /\ [][NextSummary]_vars


-----------------------------------------------------------------------------
(* The StaffWork table under creates, and the payout previews *)

InitPayout ==
    /\ clients = [c \in ClientIds |-> NoClient]
    /\ nextId = 1
    /\ calls = [s \in Slots |-> Idle]
    /\ started = 0
    /\ resp = NoResp
    /\ InitLedgerEmpty
    /\ InitPayoutEmpty
    /\ InitClassifyEmpty
    /\ InitRemindersEmpty
    /\ InitRefsEmpty

NextPayout ==
    \/ \E dto \in StaffWorkRequests : StaffWorkCreate(dto)
    \/ \E month \in QueryMonths, year \in QueryYears : GetStaffWorkPayoutPreview(month, year)

SpecPayout == InitPayout /\ [][NextPayout]_vars

-----------------------------------------------------------------------------
(* The classification of a contract, over its arguments *)

InitClassify ==
    /\ clients = [c \in ClientIds |-> NoClient]
    /\ nextId = 1
    /\ calls = [s \in Slots |-> Idle]
    /\ started = 0
    /\ resp = NoResp
    /\ InitLedgerEmpty
    /\ InitPayoutEmpty
    /\ InitClassifyEmpty
    /\ InitRemindersEmpty
    /\ InitRefsEmpty

NextClassify ==
    \E totalDays \in TotalDaysChoices, daysRemaining \in DaysRemainingChoices :
        Classify(totalDays, daysRemaining)

SpecClassify == InitClassify /\ [][NextClassify]_vars

-----------------------------------------------------------------------------
(* The daily scan and the summary counts over stored contracts *)

InitReminders ==
    /\ clients = [c \in ClientIds |-> NoClient]
    /\ nextId = 1
    /\ calls = [s \in Slots |-> Idle]
    /\ started = 0
    /\ resp = NoResp
    /\ InitLedgerEmpty
    /\ InitPayoutEmpty
    /\ InitClassifyEmpty
    /\ InitRefsEmpty
    /\ contracts \in InitialContracts
    /\ now = 0
    /\ runs = 0
    /\ adminReminders = <<>>
    /\ mails = <<>>
    /\ scan = NoScan
    /\ counts = NoCounts
    /\ cronRuns = [r \in RunSlots |-> NoRun]

NextReminders ==
    \/ \E failing \in SUBSET ClientIds : SendContractExpiryReminders(failing)
    \/ SummaryCounts

SpecReminders == InitReminders /\ [][NextReminders]_vars

-----------------------------------------------------------------------------
(* The scheduled scan, one await at a time, under triggers a day apart *)

NextCron ==
    \/ \E r \in RunSlots : CronTrigger(r)
    \/ \E r \in RunSlots, failing \in SUBSET ClientIds : CronStep(r, failing)
    \/ \E r \in RunSlots : CronReturn(r)

SpecCron == InitReminders /\ [][NextCron]_vars

-----------------------------------------------------------------------------
(* The StaffWork table under creates, updates and the removal of work items *)

\* The creates of this specification: of one staff member, at one instant.
StaffWorkRuleRequests ==
    {dto \in StaffWorkRequests : dto.staffId = 1 /\ dto.performedAt = At(2024, 12, 1, 0)}

NextStaffWork ==
    \/ \E dto \in StaffWorkRuleRequests : StaffWorkCreate(dto)
    \/ \E i \in WorkIds, dto \in UpdateStaffWorkDto : StaffWorkUpdate(i, dto)
    \/ \E w \in WorkItemIds : WorkItemRemove(w)
    \/ \E w \in WorkItemIds, rateNrs \in UpdateRateChoices : WorkItemUpdate(w, rateNrs)

SpecStaffWork == InitPayout /\ [][NextStaffWork]_vars

-----------------------------------------------------------------------------
(* Requests that name ids that exist and ids that do not *)

InitRefs ==
    /\ clients = [c \in ClientIds |-> IF c = 1 THEN ClientRow(0, 0, 0) ELSE NoClient]
    /\ nextId = 2
    /\ calls = [s \in Slots |-> Idle]
    /\ started = 0
    /\ resp = NoResp
    /\ InitLedgerEmpty
    /\ InitPayoutEmpty
    /\ InitClassifyEmpty
    /\ InitRemindersEmpty
    /\ InitRefsEmpty

NextRefs ==
    \/ \E c \in ClientIds, amt \in {500} : IncomeServiceCreate(c, amt)
    \/ \E dto \in StaffWorkRefRequests : StaffWorksServiceCreate(dto)
    \/ \E c \in {0} \cup ClientIds, st \in {0, 3, 4} : CreateReminder(c, st)
    \/ \E inf \in RequestInfluencerIds, col \in {0} \cup RequestCollaborationIds :
           PaymentsServiceCreate(inf, col, "PENDING", JsNull)
    \/ \E id \in RequestStaffIds, amt \in ExpenseAmounts : MonthlyPayout(id, amt)

SpecRefs == InitRefs /\ [][NextRefs]_vars

-----------------------------------------------------------------------------
(* The Payment table under creates, the overdue sweep and the clock *)

NextPayments ==
    \/ \E status \in PaymentStatuses, dueDate \in DueDateChoices :
           PaymentsServiceCreate(1, 0, status, dueDate)
    \/ MarkAsOverdue
    \/ TimePasses

SpecPayments == InitRefs /\ [][NextPayments]_vars

-----------------------------------------------------------------------------
(* Properties *)

\* The accounting identity on one row.
Identity(row) == row.dueAmountNrs = row.lockedAmountNrs - row.advanceAmountNrs

\* An optional delta, with undefined counted as 0.
DefaultZero(opt) == IF opt.has THEN opt.val ELSE 0

\* C1: clients that start with due = locked - advance keep due = locked - advance in
\* every state reached through adjustAccount calls, whatever deltas the calls
\* supply or omit and however the calls interleave.
AccountingIdentityUnderAdjust ==
    \A c \in ClientIds : clients[c].exists => Identity(clients[c])

\* Two adjustments by (-1, .) have committed on one client, and its due is not 0.
TwoAdjustmentsCommitted ==
    /\ resp.op = "adjustAccount"
    /\ resp.out = "ok"
    /\ clients[resp.id].lockedAmountNrs = -2
    /\ clients[resp.id].dueAmountNrs # 0

\* C2: after every successful create, update or adjustAccount, every stored
\* client satisfies due = locked - advance.
IdentityAfterEveryMutation ==
    (resp.op \in {"create", "update", "adjustAccount"} /\ resp.out = "ok")
        => \A c \in ClientIds : clients[c].exists => Identity(clients[c])

\* C3: an adjustAccount that reaches its update on an existing client succeeds,
\* adds lockedDelta, advanceDelta and lockedDelta - advanceDelta (an omitted
\* delta counting as 0) to the three balances and returns the updated row.
AdjustAddsDeltasDefaultZero ==
    (resp.op = "adjustAccount" /\ resp.before[resp.id].exists) =>
        LET b  == resp.before[resp.id]
            ld == DefaultZero(resp.l)
            ad == DefaultZero(resp.a)
        IN  /\ resp.out = "ok"
            /\ clients[resp.id] = ClientRow(b.lockedAmountNrs + ld, b.advanceAmountNrs + ad,
                                            b.dueAmountNrs + (ld - ad))
            /\ resp.ret = clients[resp.id]

\* C4: one adjustAccount call changes the table in one step by all three of its
\* deltas, or (when it fails) by nothing, and changes no other client; and a
\* row a reader is given never shows a part of an adjustment.
AdjustIsAllOrNothing ==
    /\ resp.op = "adjustAccount" =>
        IF resp.out = "ok"
        THEN LET b == resp.before[resp.id]
                 r == clients[resp.id]
             IN  /\ r.lockedAmountNrs - b.lockedAmountNrs = DefaultZero(resp.l)
                 /\ r.advanceAmountNrs - b.advanceAmountNrs = DefaultZero(resp.a)
                 /\ r.dueAmountNrs - b.dueAmountNrs = DefaultZero(resp.l) - DefaultZero(resp.a)
                 /\ \A c \in ClientIds \ {resp.id} : clients[c] = resp.before[c]
        ELSE clients = resp.before
    /\ (resp.op = "findOne" /\ resp.out = "ok") => Identity(resp.ret)

\* A reader is given a row an adjustment has raised to locked = 2 while another
\* adjustAccount call is between its findOne and its transaction.
ReaderSeesAdjustedRow ==
    /\ resp.op = "findOne"
    /\ resp.out = "ok"
    /\ resp.ret.lockedAmountNrs = 2
    /\ \E s \in Slots : calls[s].op = "adjustAccount"

\* C5: an adjustAccount (both deltas supplied) whose client does not exist when
\* its last step runs, be it the findOne or, after a concurrent remove, the
\* update, ends with NotFound and changes no balance.
AdjustOnMissingClientIsNotFound ==
    (resp.op = "adjustAccount" /\ resp.l.has /\ resp.a.has /\ ~resp.before[resp.id].exists)
        => (resp.out = "NotFoundException" /\ clients = resp.before)

\* C6: a returned summary has netNrs = totalIncomeNrs - totalExpenseNrs; when no
\* write ran during the call the totals are the sums of all Income and of all
\* Expense amounts: 0, 0, 0 over no rows, a negative net when expenses exceed income.
SummaryTotalsAdditive ==
    summary.pc = "done" =>
        /\ summary.netNrs = summary.totalIncomeNrs - summary.totalExpenseNrs
        /\ summary.quiet =>
            /\ summary.totalIncomeNrs = SumAmounts(incomes, Live(incomes))
            /\ summary.totalExpenseNrs = SumAmounts(expenses, Live(expenses))
            /\ (Live(incomes) = {} /\ Live(expenses) = {}) =>
                   (summary.totalIncomeNrs = 0 /\ summary.totalExpenseNrs = 0 /\ summary.netNrs = 0)
            /\ SumAmounts(expenses, Live(expenses)) > SumAmounts(incomes, Live(incomes)) =>
                   summary.netNrs < 0

\* A summary of income and expense rows is returned with a negative net.
SummaryWithNegativeNet ==
    /\ summary.pc = "done"
    /\ summary.quiet
    /\ Live(incomes) # {}
    /\ summary.totalIncomeNrs > 0
    /\ summary.netNrs < 0

RECURSIVE SumTotals(_)
SumTotals(groups) ==
    IF groups = {} THEN 0
    ELSE LET g == CHOOSE x \in groups : TRUE
         IN  g.total + SumTotals(groups \ {g})

\* C7: in a summary returned by a call no write ran during, the totals of
\* incomeByClient add up to totalIncomeNrs and those of expenseBySource to
\* totalExpenseNrs.
BreakdownSumsToTotals ==
    (summary.pc = "done" /\ summary.quiet) =>
        /\ SumTotals(summary.incomeByClient) = summary.totalIncomeNrs
        /\ SumTotals(summary.expenseBySource) = summary.totalExpenseNrs

\* A summary is returned over two income rows of one client and two expense
\* sources.
SummaryWithGroups ==
    /\ summary.pc = "done"
    /\ summary.quiet
    /\ Cardinality(Live(incomes)) = 2
    /\ summary.incomeByClient = {[clientId |-> 1, total |-> 1000]}
    /\ Cardinality(summary.expenseBySource) = 2

\* The first instant after the month.
NextMonthStart(month, year) ==
    IF month = 12 THEN At(year + 1, 1, 1, 0) ELSE At(year, month + 1, 1, 0)

InMonth(t, month, year) == At(year, month, 1, 0) <= t /\ t < NextMonthStart(month, year)

OnLastDayOfMonth(t, month, year) ==
    NextMonthStart(month, year) - 24 <= t /\ t < NextMonthStart(month, year)

OnFirstDayOfNextMonth(t, month, year) ==
    NextMonthStart(month, year) <= t /\ t < NextMonthStart(month, year) + 24

LiveWorks == {i \in WorkIds : staffWorks[i].state = "live"}

\* Every row of a work-basis staff member has its work item, quantity and rate.
WorkBasisRowsWellFormed ==
    \A i \in LiveWorks :
        staff[staffWorks[i].staffId].type = "WORK_BASIS" =>
            /\ staffWorks[i].workItemId # 0
            /\ ~staffWorks[i].quantity.null
            /\ ~staffWorks[i].unitRateNrs.null

EntriesOf(r) == {r.entries[k] : k \in 1..Len(r.entries)}

RECURSIVE SumQuantityTimesRate(_)
SumQuantityTimesRate(lines) ==
    IF lines = <<>> THEN 0
    ELSE Head(lines).quantity.val * Head(lines).unitRate.val + SumQuantityTimesRate(Tail(lines))

\* C8: over well-formed rows, the preview with no staffId has exactly one entry
\* per WORK_BASIS staff member with a StaffWork in the month, none for MONTHLY
\* staff, and each totalAmount is the sum of quantity * unitRateNrs of the
\* entry's rows and the sum of works[].total.
PreviewHasEntryPerWorkBasisStaffOfMonth ==
    (preview # NoPreview /\ WorkBasisRowsWellFormed) =>
        LET r == preview.calls[0]
        IN  /\ r.out = "ok"
            /\ {e.staffId : e \in EntriesOf(r)} =
                   {s \in StaffIds :
                       /\ staff[s].type = "WORK_BASIS"
                       /\ \E i \in LiveWorks :
                              /\ staffWorks[i].staffId = s
                              /\ InMonth(staffWorks[i].performedAt, preview.month, preview.year)}
            /\ Len(r.entries) = Cardinality(EntriesOf(r))
            /\ \A e \in EntriesOf(r) :
                   /\ staff[e.staffId].type # "MONTHLY"
                   /\ e.totalAmount = SumQuantityTimesRate(e.works)
                   /\ e.totalAmount = SumLines(e.works)

\* C9: the preview for a staffId includes that staff member's StaffWork
\* performed at any time of the last calendar day of the month and excludes
\* one performed on the first day of the next month.
LastDayIncludedNextMonthExcluded ==
    preview # NoPreview =>
        \A s \in StaffIds, i \in LiveWorks :
            (/\ staffWorks[i].staffId = s
             /\ staff[s].type = "WORK_BASIS"
             /\ preview.calls[s].out = "ok") =>
                LET included == \E e \in EntriesOf(preview.calls[s]) :
                                    \E k \in 1..Len(e.works) : e.works[k].id = i
                    t        == staffWorks[i].performedAt
                IN  /\ OnLastDayOfMonth(t, preview.month, preview.year) => included
                    /\ OnFirstDayOfNextMonth(t, preview.month, preview.year) => ~included

\* C10: the entries the preview with no staffId returns are exactly the union
\* of the entries the previews with each staffId return.
OmittedStaffIdIsUnionOfPerStaffCalls ==
    preview # NoPreview =>
        EntriesOf(preview.calls[0]) = UNION {EntriesOf(preview.calls[s]) : s \in StaffIds}

\* The largest integer q with den * q <= n.
FloorOfQuotient(n, den) == CHOOSE q \in -200..200 : den * q <= n /\ n < den * q + den

\* C11: with halfway = floor(totalDays / 2) and quarter = floor(totalDays / 4),
\* the classification is URGENT/FINAL when daysRemaining <= quarter, else
\* HIGH/MIDPOINT when daysRemaining <= halfway, else MEDIUM/INITIAL, with
\* inclusive thresholds (for 100 days: 10 and 25 URGENT, 40 HIGH, 90 MEDIUM),
\* and it is never LOW.
ClassificationByInclusiveThresholds ==
    classified.called =>
        LET t == classified.totalDays
            d == classified.daysRemaining
            halfway == FloorOfQuotient(t, 2)
            quarter == FloorOfQuotient(t, 4)
            got == <<classified.priority, classified.stage>>
        IN  /\ got = IF d <= quarter THEN <<"URGENT", "FINAL">>
                     ELSE IF d <= halfway THEN <<"HIGH", "MIDPOINT">>
                     ELSE <<"MEDIUM", "INITIAL">>
            /\ classified.priority # "LOW"
            /\ (t = 100 /\ d \in {10, 25}) => got = <<"URGENT", "FINAL">>
            /\ (t = 100 /\ d = 40) => got = <<"HIGH", "MIDPOINT">>
            /\ (t = 100 /\ d = 90) => got = <<"MEDIUM", "INITIAL">>

\* A contract of 100 days with exactly 25 days remaining is classified URGENT.
ClassifiedAtQuarter ==
    /\ classified.called
    /\ classified.totalDays = 100
    /\ classified.daysRemaining = 25
    /\ classified.priority = "URGENT"

\* The ACTIVE clients whose contractStartDate lies in (at, at + days].
ActiveStartingWithin(at, days) ==
    {c \in ClientIds :
        /\ contracts[c].exists
        /\ contracts[c].type = "ACTIVE"
        /\ at < contracts[c].contractStartDate
        /\ contracts[c].contractStartDate <= at + days * HoursPerDay}

\* C12: each count contractsExpiringIn<h>Day(s), h in {1, 7, 30}, of a returned
\* summary is the number of ACTIVE clients whose contractStartDate lies in
\* (now, now + h days].
ExpiryCountsCountActiveClientsInHorizon ==
    counts.returned =>
        /\ counts.contractsExpiringIn1Day = Cardinality(ActiveStartingWithin(counts.at, 1))
        /\ counts.contractsExpiringIn7Days = Cardinality(ActiveStartingWithin(counts.at, 7))
        /\ counts.contractsExpiringIn30Days = Cardinality(ActiveStartingWithin(counts.at, 30))

\* C13: every stored StaffWork has a workItemId or a title, in every state
\* reached through StaffWork create, StaffWork update and WorkItem remove.
StaffWorkHasWorkItemOrTitle ==
    \A i \in WorkIds :
        staffWorks[i].state = "live" => (staffWorks[i].workItemId # 0 \/ staffWorks[i].hasTitle)

\* The ids of the clients the last run selected.
SelectedIds == {scan.reminders[k].id : k \in 1..Len(scan.reminders)}

\* C14: in one run over its selected clients, a failing notification does not
\* abort the run: every selected client gets its AdminReminder row and its
\* notification attempt.
DispatchFailureDoesNotAbortRun ==
    scan.ran =>
        /\ scan.out = "ok"
        /\ Len(scan.created) = Len(scan.reminders)
        /\ Len(scan.attempts) = Len(scan.reminders)
        /\ \A k \in 1..Len(scan.reminders) :
               /\ scan.created[k].clientId = scan.reminders[k].id
               /\ scan.attempts[k].clientId = scan.reminders[k].id

\* A run over two selected clients in which the first notification failed and
\* the second client still got its row and its attempt.
RunContinuedAfterFailedDispatch ==
    /\ scan.ran
    /\ Len(scan.reminders) = 2
    /\ Len(scan.attempts) = 2
    /\ ~scan.attempts[1].delivered
    /\ Len(scan.created) = 2

\* The number of elements of a sequence that are about client c.
RECURSIVE CountFor(_, _)
CountFor(rows, c) ==
    IF rows = <<>> THEN 0
    ELSE (IF Head(rows).clientId = c THEN 1 ELSE 0) + CountFor(Tail(rows), c)

\* C18: with one run every 24 hours, no client (of unchanged contractStartDate)
\* gets more than one CONTRACT_EXPIRY AdminReminder or more than one
\* notification, also when its contractStartDate lies on a window boundary.
AtMostOneReminderPerContract ==
    \A c \in ClientIds :
        /\ CountFor(adminReminders, c) <= 1
        /\ CountFor(mails, c) <= 1

\* The least number of whole days that cover the given hours.
DaysCovering(hours) ==
    CHOOSE n \in -50..500 : n * HoursPerDay >= hours /\ (n - 1) * HoursPerDay < hours

\* C19: one run creates exactly one AdminReminder (CONTRACT_EXPIRY, the
\* client's id, the priority and stage of the classification of
\* (contractDurationDays, daysRemaining)) and dispatches exactly one
\* notification for each selected client, and none for any other client.
OneReminderAndOneNotificationPerSelectedClient ==
    scan.ran =>
        \A c \in ClientIds :
            IF c \in SelectedIds
            THEN /\ CountFor(scan.created, c) = 1
                 /\ CountFor(scan.attempts, c) = 1
                 /\ \A k \in 1..Len(scan.created) :
                        scan.created[k].clientId = c =>
                            LET days == DaysCovering(contracts[c].contractStartDate
                                            + contracts[c].contractDurationDays * HoursPerDay - scan.at)
                                class == GetPriorityAndStages(contracts[c].contractDurationDays, days)
                            IN  /\ scan.created[k].type = "CONTRACT_EXPIRY"
                                /\ scan.created[k].priority = class.priority
                                /\ scan.created[k].stage = class.stage
            ELSE /\ CountFor(scan.created, c) = 0
                 /\ CountFor(scan.attempts, c) = 0

\* A run that selected one of two stored clients and created one row.
RunSelectedOneOfTwoClients ==
    /\ scan.ran
    /\ \A c \in ClientIds : contracts[c].exists
    /\ Cardinality(SelectedIds) = 1
    /\ Len(scan.created) = 1
    /\ Len(scan.attempts) = 1

\* C20: the scan selects exactly the clients whose contractStartDate lies in
\* [now + 30 days - 24 hours, now + 30 days].
ScanSelectsLastDayBeforeThirtyDays ==
    scan.ran =>
        /\ SelectedIds =
               {c \in ClientIds :
                   /\ contracts[c].exists
                   /\ scan.at + 30 * 24 - 24 <= contracts[c].contractStartDate
                   /\ contracts[c].contractStartDate <= scan.at + 30 * 24}
        /\ Len(scan.reminders) = Cardinality(SelectedIds)

\* A run that selected the client on the earlier end of the window and not the
\* client one hour past the later end.
ScanSelectedWindowStartOnly ==
    /\ scan.ran
    /\ scan.at = 0
    /\ contracts[1].contractStartDate = 721
    /\ contracts[2].exists
    /\ contracts[2].contractStartDate = 696
    /\ SelectedIds = {2}

\* C17: a summary returned by a getSummary call that ran interleaved with
\* Income or Expense writes is still computed from one read: the totals of
\* incomeByClient add up to totalIncomeNrs and those of expenseBySource to
\* totalExpenseNrs.
SummaryFromOneLogicalRead ==
    summary.pc = "done" =>
        /\ SumTotals(summary.incomeByClient) = summary.totalIncomeNrs
        /\ SumTotals(summary.expenseBySource) = summary.totalExpenseNrs

\* C15: a request that names a Client, Staff, WorkItem, Collaboration or
\* Influencer id that does not exist ends with NotFound and creates or changes
\* no row.
MissingReferenceIsNotFound ==
    (last.op # "none" /\ last.missing) => (last.out = "NotFoundException" /\ Tables = last.before)

\* The live Expense rows that were not there before the last request.
NewExpenses == {i \in RowIds : expenses[i].state = "live" /\ last.before.expenses[i].state # "live"}

\* C16: monthlyPayout for a WORK_BASIS staff member is rejected with
\* BadRequest and creates no Expense; for a MONTHLY staff member it creates
\* exactly one Expense with that staffId, the given amountNrs and source
\* STAFF_MONTHLY.
MonthlyPayoutOnlyForMonthlyStaff ==
    (last.op = "staff.monthlyPayout" /\ last.id \in StaffIds) =>
        IF staff[last.id].type = "WORK_BASIS"
        THEN last.out = "BadRequestException" /\ expenses = last.before.expenses
        ELSE /\ last.out = "ok"
             /\ Cardinality(NewExpenses) = 1
             /\ \A i \in NewExpenses :
                    /\ expenses[i].staffId = last.id
                    /\ expenses[i].amountNrs = last.amountNrs
                    /\ expenses[i].source = "STAFF_MONTHLY"
             /\ \A i \in RowIds \ NewExpenses : expenses[i] = last.before.expenses[i]

\* A payout to a work-basis staff member was rejected after a payout to the
\* monthly staff member had stored its Expense.
PayoutRejectedAfterPayoutStored ==
    /\ last.op = "staff.monthlyPayout"
    /\ last.out = "BadRequestException"
    /\ \E i \in RowIds : expenses[i].state = "live" /\ expenses[i].staffId = 3

\* C21: the scan never creates an AdminReminder or sends a notification for
\* a client whose type is not ACTIVE.
ScanRemindsActiveClientsOnly ==
    /\ \A k \in 1..Len(adminReminders) : contracts[adminReminders[k].clientId].type = "ACTIVE"
    /\ \A k \in 1..Len(mails) : contracts[mails[k].clientId].type = "ACTIVE"

RemindedBy(r) == {cronRuns[r].reminders[k].id : k \in 1..cronRuns[r].done}

\* C22: two executions of sendContractExpiryReminders are never in progress
\* at once, and runs that overlap do not both create a reminder for the same
\* client.
ScanRunsNeverOverlap ==
    /\ Cardinality({r \in RunSlots : cronRuns[r].pc = "loop"}) <= 1
    /\ \A r1, r2 \in RunSlots : r1 # r2 => RemindedBy(r1) \cap RemindedBy(r2) = {}


\* The rows of a preview call as the store returned them.
PreviewRows(a) == FindManyStaffWorks(preview.month, preview.year, a)

\* A row the payout cannot be computed from: no work item, or no quantity or
\* unit rate.
Malformed(work) == work.workItemId = 0 \/ work.quantity.null \/ work.unitRateNrs.null

\* C23: a malformed row of a WORK_BASIS staff member does not fail the preview
\* as a whole, and the row is never listed with a line total coerced to zero.
PreviewSurvivesMalformedRows ==
    preview # NoPreview =>
        \A a \in StaffIdArgs :
            /\ preview.calls[a].out = "ok"
            /\ \A k \in 1..Len(preview.calls[a].entries) :
                   \A j \in 1..Len(preview.calls[a].entries[k].works) :
                       ~Malformed(staffWorks[preview.calls[a].entries[k].works[j].id])

\* The staff members of the rows, each once, in the order of their first row.
RECURSIVE FirstSeen(_)
FirstSeen(rows) ==
    IF rows = <<>> THEN <<>>
    ELSE LET before == FirstSeen(SubSeq(rows, 1, Len(rows) - 1))
             s      == staffWorks[rows[Len(rows)]].staffId
         IN  IF \E k \in 1..Len(before) : before[k] = s THEN before ELSE Append(before, s)

\* C24: the entries of a preview stand in the order in which each staff
\* member's first row came back from the store.
PreviewEntriesInFirstRowOrder ==
    preview # NoPreview =>
        \A a \in StaffIdArgs :
            preview.calls[a].out = "ok" =>
                [k \in 1..Len(preview.calls[a].entries) |-> preview.calls[a].entries[k].staffId]
                    = FirstSeen(PreviewRows(a))

\* The step is an update of row i that gives a unit rate.
GivesUnitRate(i) ==
    /\ last'.op = "staffWorks.update"
    /\ last'.id = i
    /\ last'.unitRateNrs.has

\* C25: the unit rate of a StaffWork of a work item is fixed when the row is
\* created (the rate given, or the item's rate of that moment); no later update
\* of the WorkItem and no later update of the StaffWork that gives no
\* unitRateNrs changes it.
UnitRateIsCreationSnapshot ==
    [][\A i \in WorkIds :
           /\ (staffWorks[i].state = "free" /\ staffWorks'[i].state = "live"
                 /\ staffWorks'[i].workItemId # 0) =>
                  staffWorks'[i].unitRateNrs
                      \in {JsValue(workItems[staffWorks'[i].workItemId].rateNrs), JsValue(200)}
           /\ (staffWorks[i].state = "live" /\ staffWorks[i].workItemId # 0
                 /\ staffWorks'[i].state = "live" /\ ~GivesUnitRate(i)) =>
                  staffWorks'[i].unitRateNrs = staffWorks[i].unitRateNrs]_vars

\* C29: every StaffWork with a work item has a quantity and a unit rate, in
\* every state reached through StaffWork create and update.
WorkItemRowsHaveQuantityAndRate ==
    \A i \in WorkIds :
        (staffWorks[i].state = "live" /\ staffWorks[i].workItemId # 0) =>
            (~staffWorks[i].quantity.null /\ ~staffWorks[i].unitRateNrs.null)

\* The payment was PENDING with a due date before the instant at.
PendingPastDue(payment, at) ==
    payment.status = "PENDING" /\ ~payment.dueDate.null /\ payment.dueDate.val < at

\* C26: markAsOverdue turns into OVERDUE exactly the PENDING payments whose
\* dueDate lies before now and leaves every other payment as it was; a second
\* call at the same instant changes nothing.
MarkAsOverdueMovesPendingPastDueOnly ==
    last.op = "payments.markAsOverdue" =>
        /\ Len(payments) = Len(last.before)
        /\ \A k \in 1..Len(payments) :
               payments[k] = IF PendingPastDue(last.before[k], last.at)
                             THEN [last.before[k] EXCEPT !.status = "OVERDUE"]
                             ELSE last.before[k]
        /\ last.count = Cardinality({k \in 1..Len(payments) : PendingPastDue(last.before[k], last.at)})
        /\ last.again => (payments = last.before /\ last.count = 0)

\* A sweep turned one payment OVERDUE and left a PAID payment with a past due
\* date alone, and a second sweep at that instant followed.
SweptOneAndSweptAgain ==
    /\ last.op = "payments.markAsOverdue"
    /\ last.again
    /\ \E k, j \in 1..Len(payments) :
           /\ payments[k].status = "OVERDUE" /\ payments[k].dueDate = JsValue(0)
           /\ payments[j].status = "PAID" /\ payments[j].dueDate = JsValue(-24)

\* C27: a summary no write ran during has exactly one incomeByClient entry
\* for each client with at least one Income row and none for any other client,
\* and one expenseBySource entry for each source with at least one Expense row.
BreakdownListsKeysWithRowsOnly ==
    (summary.pc = "done" /\ summary.quiet) =>
        /\ {g.clientId : g \in summary.incomeByClient} = {incomes[i].clientId : i \in Live(incomes)}
        /\ Cardinality(summary.incomeByClient)
               = Cardinality({incomes[i].clientId : i \in Live(incomes)})
        /\ {g.source : g \in summary.expenseBySource} = {expenses[i].source : i \in Live(expenses)}
        /\ Cardinality(summary.expenseBySource)
               = Cardinality({expenses[i].source : i \in Live(expenses)})

\* A summary is returned while two clients are stored and only one of them has
\* income, and only one source has an expense.
SummaryLeavesOutClientWithoutIncome ==
    /\ summary.pc = "done"
    /\ summary.quiet
    /\ \A c \in ClientIds : clients[c].exists
    /\ {incomes[i].clientId : i \in Live(incomes)} = {1}
    /\ Cardinality(summary.incomeByClient) = 1
    /\ Cardinality(summary.expenseBySource) = 1

\* C30: of several adjustAccount calls in flight on one client, each with both
\* deltas, every one that commits adds its own deltas to the balances the row
\* holds at that moment and leaves the calls still in flight as they are, so
\* that in every interleaving the balances end at the initial ones plus the
\* sums of the deltas: no update is lost.
ConcurrentAdjustsAddUp ==
    [][\A s \in Slots :
           (/\ calls[s].op = "adjustAccount"
            /\ calls'[s] = Idle
            /\ calls[s].l.has /\ calls[s].a.has
            /\ clients[calls[s].id].exists) =>
               /\ clients'[calls[s].id]
                      = ClientRow(clients[calls[s].id].lockedAmountNrs + calls[s].l.val,
                                  clients[calls[s].id].advanceAmountNrs + calls[s].a.val,
                                  clients[calls[s].id].dueAmountNrs + (calls[s].l.val - calls[s].a.val))
               /\ \A c \in ClientIds \ {calls[s].id} : clients'[c] = clients[c]
               /\ \A t \in Slots \ {s} : calls'[t] = calls[t]]_vars

\* An adjustAccount call with both deltas has committed on a row an earlier
\* adjustment had changed, while another adjustAccount call on the same client
\* was between its findOne and its transaction.
AdjustCommittedBesideAnother ==
    /\ resp.op = "adjustAccount"
    /\ resp.out = "ok"
    /\ resp.l.has /\ resp.a.has /\ resp.l.val = 1 /\ resp.a.val = -1
    /\ clients[resp.id].lockedAmountNrs = resp.before[resp.id].lockedAmountNrs + 1
    /\ \E s \in Slots : calls[s].op = "adjustAccount" /\ calls[s].id = resp.id
                         /\ calls[s].l.has /\ calls[s].a.has

====
